---- MODULE Spec2Model ----
(***************************************************************************)
(* Model of build-script.ts: the userscript build pipeline.                *)
(*                                                                         *)
(* Text is a sequence of one-character strings, so that the regular        *)
(* expressions and String.prototype methods the script uses are modelled   *)
(* by what they do to the characters.                                      *)
(***************************************************************************)
EXTENDS Integers, Sequences, FiniteSets, TLC

(***************************************************************************)
(* Bounds of the model.                                                    *)
(***************************************************************************)
MaxBindings == 2
MaxTokens == 3
MaxSuffixes == 2
MaxEvents == 2
MaxEdits == 2

(***************************************************************************)
(* Text helpers: JavaScript string primitives.                             *)
(***************************************************************************)
\* \s of a JavaScript regular expression (the ASCII part used here)
Ws == {" ", "\n", "\t"}

RECURSIVE Flatten(_)
Flatten(ss) == IF ss = <<>> THEN <<>> ELSE Head(ss) \o Flatten(Tail(ss))

\* Array.prototype.join
RECURSIVE Join(_, _)
Join(ss, sep) ==
  IF ss = <<>> THEN <<>>
  ELSE IF Len(ss) = 1 THEN ss[1]
  ELSE ss[1] \o sep \o Join(Tail(ss), sep)

\* does text t occur in s at index i
StartsAt(s, i, t) ==
  /\ i >= 1
  /\ i + Len(t) - 1 <= Len(s)
  /\ SubSeq(s, i, i + Len(t) - 1) = t

\* the first index >= i at which t occurs in s (0 when there is none)
RECURSIVE IndexFrom(_, _, _)
IndexFrom(s, t, i) ==
  IF i + Len(t) - 1 > Len(s) THEN 0
  ELSE IF StartsAt(s, i, t) THEN i
  ELSE IndexFrom(s, t, i + 1)

\* String.prototype.indexOf (1-based; 0 when absent)
IndexOf(s, t) == IndexFrom(s, t, 1)

\* first index >= i of s that holds no whitespace (Len(s)+1 when none)
RECURSIVE SkipWs(_, _)
SkipWs(s, i) ==
  IF i <= Len(s) /\ s[i] \in Ws THEN SkipWs(s, i + 1) ELSE i

\* String.prototype.trim
RECURSIVE TrimStart(_)
TrimStart(s) ==
  IF s # <<>> /\ Head(s) \in Ws THEN TrimStart(Tail(s)) ELSE s

RECURSIVE TrimEnd(_)
TrimEnd(s) ==
  IF s # <<>> /\ s[Len(s)] \in Ws THEN TrimEnd(SubSeq(s, 1, Len(s) - 1)) ELSE s

Trim(s) == TrimEnd(TrimStart(s))

\* String.prototype.split with a one-character string separator
RECURSIVE SplitChar(_, _)
SplitChar(s, c) ==
  LET i == IndexOf(s, <<c>>)
  IN IF i = 0 THEN <<s>>
     ELSE <<SubSeq(s, 1, i - 1)>> \o SplitChar(SubSeq(s, i + 1, Len(s)), c)

(***************************************************************************)
(* The regular expressions of build().                                     *)
(***************************************************************************)
EXPORT == <<"e", "x", "p", "o", "r", "t">>

\* /export\s*\{/ anchored at i: the index of its "{", or 0 when it does not
\* match there
ExportOpenEnd(s, i) ==
  IF StartsAt(s, i, EXPORT)
  THEN LET j == SkipWs(s, i + Len(EXPORT))
       IN IF j <= Len(s) /\ s[j] = "{" THEN j ELSE 0
  ELSE 0

\* /export\s*\{[\s\S]*?\};/ anchored at i: the index of its last character,
\* or 0.  The lazy [\s\S]*? stops at the first "};" after the "{".
ExportMatchAt(s, i) ==
  LET j == ExportOpenEnd(s, i)
  IN IF j = 0 THEN 0
     ELSE LET k == IndexOf(SubSeq(s, j + 1, Len(s)), <<"}", ";">>)
          IN IF k = 0 THEN 0 ELSE j + k + 1

\* builtCode.match(/export\s*\{[\s\S]*?\};/): the leftmost match,
\* [start, end], start = 0 for null
exportMatch(s) ==
  IF \E i \in 1..Len(s) : ExportMatchAt(s, i) # 0
  THEN LET i == CHOOSE i \in 1..Len(s) :
                  /\ ExportMatchAt(s, i) # 0
                  /\ \A j \in 1..(i - 1) : ExportMatchAt(s, j) = 0
       IN [start |-> i, end |-> ExportMatchAt(s, i)]
  ELSE [start |-> 0, end |-> 0]

\* .replace(/export\s*\{/, "")
StripExportOpen(b) ==
  IF \E i \in 1..Len(b) : ExportOpenEnd(b, i) # 0
  THEN LET i == CHOOSE i \in 1..Len(b) :
                  /\ ExportOpenEnd(b, i) # 0
                  /\ \A j \in 1..(i - 1) : ExportOpenEnd(b, j) = 0
       IN SubSeq(b, 1, i - 1) \o SubSeq(b, ExportOpenEnd(b, i) + 1, Len(b))
  ELSE b

\* /\};?$/ anchored at i ($ is the end of the input: no m flag)
CloseMatchAt(b, i) ==
  /\ b[i] = "}"
  /\ \/ i = Len(b)
     \/ i + 1 = Len(b) /\ b[i + 1] = ";"

\* .replace(/\};?$/, "")
StripClose(b) ==
  IF \E i \in 1..Len(b) : CloseMatchAt(b, i)
  THEN LET i == CHOOSE i \in 1..Len(b) :
                  /\ CloseMatchAt(b, i)
                  /\ \A j \in 1..(i - 1) : ~CloseMatchAt(b, j)
       IN SubSeq(b, 1, i - 1)
  ELSE b

\* /\s+as\s+/ anchored at q: the index of its last character, or 0
AsMatchAt(s, q) ==
  IF q <= Len(s) /\ s[q] \in Ws
  THEN LET r == SkipWs(s, q)
       IN IF /\ StartsAt(s, r, <<"a", "s">>)
             /\ r + 2 <= Len(s)
             /\ s[r + 2] \in Ws
          THEN SkipWs(s, r + 2) - 1
          ELSE 0
  ELSE 0

\* .split(/\s+as\s+/)
RECURSIVE SplitAs(_)
SplitAs(s) ==
  IF \E q \in 1..Len(s) : AsMatchAt(s, q) # 0
  THEN LET q == CHOOSE q \in 1..Len(s) :
                  /\ AsMatchAt(s, q) # 0
                  /\ \A j \in 1..(q - 1) : AsMatchAt(s, j) = 0
       IN <<SubSeq(s, 1, q - 1)>>
            \o SplitAs(SubSeq(s, AsMatchAt(s, q) + 1, Len(s)))
  ELSE <<s>>

\* the replacement patterns of String.prototype.replace (GetSubstitution)
\* for a string pattern, which has no capture groups
RECURSIVE GetSubstitution(_, _, _, _)
GetSubstitution(repl, matched, before, after) ==
  IF repl = <<>> THEN <<>>
  ELSE IF Head(repl) = "$" /\ Len(repl) >= 2
  THEN LET c == repl[2]
           rest == SubSeq(repl, 3, Len(repl))
       IN CASE c = "$" -> <<"$">> \o GetSubstitution(rest, matched, before, after)
            [] c = "&" -> matched \o GetSubstitution(rest, matched, before, after)
            [] c = "`" -> before \o GetSubstitution(rest, matched, before, after)
            [] c = "'" -> after \o GetSubstitution(rest, matched, before, after)
            [] OTHER -> <<"$">> \o GetSubstitution(Tail(repl), matched, before, after)
  ELSE <<Head(repl)>> \o GetSubstitution(Tail(repl), matched, before, after)

\* every occurrence replaced, as s.replaceAll(pat, repl) would
RECURSIVE ReplaceEvery(_, _, _)
ReplaceEvery(s, pat, repl) ==
  LET i == IndexOf(s, pat)
  IN IF i = 0 \/ pat = <<>> THEN s
     ELSE SubSeq(s, 1, i - 1) \o repl
            \o ReplaceEvery(SubSeq(s, i + Len(pat), Len(s)), pat, repl)

\* s.replace(pat, repl) with a string pattern: the first occurrence only
Replace(s, pat, repl) ==
  LET i == IndexOf(s, pat)
  IN IF i = 0 THEN s
     ELSE LET before == SubSeq(s, 1, i - 1)
              after == SubSeq(s, i + Len(pat), Len(s))
          IN before \o GetSubstitution(repl, pat, before, after) \o after


(***************************************************************************)
(* Module-export transformer (build, the export rewrite).                  *)
(***************************************************************************)
\* exportBlock.replace(...).replace(...).trim()
exportList(exportBlock) == Trim(StripClose(StripExportOpen(exportBlock)))

\* the callback of .map: one binding expression to one assignment
Assignment(exp) ==
  LET parts == SplitAs(Trim(exp))
      source == parts[1]
      alias == IF Len(parts) = 2 THEN parts[2] ELSE parts[1]
  IN <<"e", "x", "p", "o", "r", "t", "s", ".">> \o Trim(alias)
       \o <<" ", "=", " ">> \o Trim(source) \o <<";">>

\* exportList.split(",").map(...).join("\n")
assignments(list) ==
  LET exps == SplitChar(list, ",")
  IN Join([i \in 1..Len(exps) |-> Assignment(exps[i])], <<"\n">>)

\* the rewrite of builtCode
Transform(builtCode) ==
  LET m == exportMatch(builtCode)
  IN IF m.start = 0 THEN builtCode
     ELSE LET exportBlock == SubSeq(builtCode, m.start, m.end)
          IN Replace(builtCode, exportBlock, assignments(exportList(exportBlock)))

(***************************************************************************)
(* Header synthesizer (generateHeader).                                    *)
(*                                                                         *)
(* A manifest value is text without line breaks ("" is <<>>); an optional  *)
(* property is <<>> (undefined) or <<v>>.  The literal parts of a template *)
(* string are kept as one piece of text each.                              *)
(***************************************************************************)
ScalarOptions ==
  {"name", "namespace", "version", "description", "author", "homepage",
   "icon", "run-at"}
ListOptions == {"match", "include", "exclude", "require", "grant", "connect"}
OptionKeys == ScalarOptions \cup ListOptions \cup {"noframes"}
ManifestOptional == {"description", "author", "homepage"}

\* the object {} of `pkg.userscript || {}`
NoOptions == [k \in OptionKeys |-> <<>>]

\* a test for undefined in place of truthiness
IsDefined(o) == o # <<>>

\* JavaScript truthiness of an optional string property: "" is falsy
Truthy(o) == o # <<>> /\ o[1] # <<>>

\* JavaScript truthiness of an optional boolean property
TruthyFlag(o) == o # <<>> /\ o[1]

\* JavaScript truthiness of an optional array property: any array is truthy
TruthyList(o) == o # <<>>

\* b || a: the operands of || swapped
OrElseSwapped(a, b) == IF b # <<>> /\ b[1] # <<>> THEN b ELSE a

\* a || b on optional strings
OrElse(a, b) == IF Truthy(a) THEN a ELSE b

\* `${x}` of an optional string
Template(o) == IF o = <<>> THEN <<"undefined">> ELSE o[1]

\* userscript.<list>.forEach(x => headers.push(`<directive>${x}`))
ForEachLine(directive, arr) ==
  [i \in 1..Len(arr) |-> <<directive>> \o arr[i]]

\* the array `headers` just before join
headers(pkg) ==
  LET userscript == IF pkg["userscript"] = <<>> THEN NoOptions
                    ELSE pkg["userscript"][1]
  IN <<
       <<"// ==UserScript==">>,
       <<"// @name         ">>
          \o Template(OrElse(userscript["name"], <<pkg["name"]>>)),
       <<"// @version      ">>
          \o Template(OrElse(userscript["version"], <<pkg["version"]>>))
     >>
     \o (IF Truthy(userscript["namespace"])
         THEN << <<"// @namespace    ">> \o Template(userscript["namespace"]) >>
         ELSE <<>>)
     \o (IF Truthy(pkg["description"]) \/ Truthy(userscript["description"])
         THEN << <<"// @description  ">>
                   \o Template(OrElse(userscript["description"], pkg["description"])) >>
         ELSE <<>>)
     \o (IF Truthy(pkg["author"]) \/ Truthy(userscript["author"])
         THEN << <<"// @author       ">>
                   \o Template(OrElse(userscript["author"], pkg["author"])) >>
         ELSE <<>>)
     \o (IF Truthy(pkg["homepage"]) \/ Truthy(userscript["homepage"])
         THEN << <<"// @homepage     ">>
                   \o Template(OrElse(userscript["homepage"], pkg["homepage"])) >>
         ELSE <<>>)
     \o (IF Truthy(userscript["icon"])
         THEN << <<"// @icon         ">> \o Template(userscript["icon"]) >>
         ELSE <<>>)
     \o (IF TruthyList(userscript["match"])
         THEN ForEachLine("// @match        ", userscript["match"][1])
         ELSE <<>>)
     \o (IF TruthyList(userscript["include"])
         THEN ForEachLine("// @include      ", userscript["include"][1])
         ELSE <<>>)
     \o (IF TruthyList(userscript["exclude"])
         THEN ForEachLine("// @exclude      ", userscript["exclude"][1])
         ELSE <<>>)
     \o (IF TruthyList(userscript["require"])
         THEN ForEachLine("// @require      ", userscript["require"][1])
         ELSE <<>>)
     \o (IF TruthyList(userscript["grant"])
         THEN ForEachLine("// @grant        ", userscript["grant"][1])
         ELSE <<>>)
     \o (IF TruthyList(userscript["connect"])
         THEN ForEachLine("// @connect      ", userscript["connect"][1])
         ELSE <<>>)
     \o (IF Truthy(userscript["run-at"])
         THEN << <<"// @run-at       ">> \o Template(userscript["run-at"]) >>
         ELSE <<>>)
     \o (IF TruthyFlag(userscript["noframes"])
         THEN << <<"// @noframes">> >>
         ELSE <<>>)
     \o << <<"// ==/UserScript==">>, <<>> >>

\* the join without the final "" element of headers
generateHeaderUnterminated(pkg) ==
  Join(SubSeq(headers(pkg), 1, Len(headers(pkg)) - 1), <<"\n">>)

\* headers.join("\n")
generateHeader(pkg) == Join(headers(pkg), <<"\n">>)

(***************************************************************************)
(* Runtime wrapper and assembler (build, after the export rewrite).        *)
(***************************************************************************)
\* the template string wrappedCode
wrappedCode(builtCode) ==
  <<"(function() {", "\n", "  const exports = {};", "\n", "  ", "\n">>
    \o builtCode
    \o <<"\n", "\n", "  window._spitroast = exports;", "\n", "})();">>

DotUser == <<".", "u", "s", "e", "r">>

\* /\.user$/ anchored at i ($ is the end of the input)
DotUserMatchAt(name, i) == StartsAt(name, i, DotUser) /\ i + Len(DotUser) - 1 = Len(name)

\* pkg.name.replace(/\.user/, ""): the pattern without its $
baseNameUnanchored(name) ==
  LET i == IndexOf(name, DotUser)
  IN IF i = 0 THEN name
     ELSE SubSeq(name, 1, i - 1) \o SubSeq(name, i + Len(DotUser), Len(name))

\* pkg.name.replace(/\.user$/, "")
baseName(name) ==
  IF \E i \in 1..Len(name) : DotUserMatchAt(name, i)
  THEN LET i == CHOOSE i \in 1..Len(name) :
                  /\ DotUserMatchAt(name, i)
                  /\ \A j \in 1..(i - 1) : ~DotUserMatchAt(name, j)
       IN SubSeq(name, 1, i - 1) \o SubSeq(name, i + Len(DotUser), Len(name))
  ELSE name

\* `${baseName}.user.js`, the file name of userscriptPath
userscriptFile(name) == baseName(name) \o DotUser \o <<".", "j", "s">>

\* header + wrappedCode, the text build writes
userscript(pkg, builtCode) ==
  generateHeader(pkg) \o wrappedCode(Transform(builtCode))

(***************************************************************************)
(* State.                                                                  *)
(***************************************************************************)
VARIABLES
  tIn,      \* transformer run: the module source handed to the rewrite
  tOut,     \* transformer run: <<>> or <<the rewritten source>>
  hPkg,     \* header run: the parsed package.json
  hEdits,   \* header run: number of manifest edits made
  hOut,     \* header run: <<>> or <<the rendered header>>
  nName,    \* file name run: pkg.name
  nOut,     \* file name run: <<>> or <<the artifact file name>>
  pc,       \* process: "off", "start", "building", "watching" or "exited"
  watch,    \* process: the --watch / -w flag
  manifest, \* package.json on disk: <<>> (missing or unparsable) or <<pkg>>
  edits,    \* number of edits made to package.json
  pkg,      \* the const pkg of the first build call: <<>> or <<pkg>>
  builds,   \* the build calls suspended in `await Bun.build`
  disk,     \* the artifacts in dist: a set of [path, text]
  queued,   \* change events delivered by the watcher, not yet taken
  emitted,  \* change events delivered so far
  observed, \* change events taken by the for-await loop
  writes,   \* artifacts written so far
  exitCode, \* <<>> while running, then <<status>>
  lastWrite,\* history: <<>> or <<the last artifact written and its build>>
  failure   \* history: <<>> or <<the state at the bundler failure>>

vars ==
  <<tIn, tOut, hPkg, hEdits, hOut, nName, nOut, pc, watch, manifest, edits,
    pkg, builds, disk, queued, emitted, observed, writes, exitCode,
    lastWrite, failure>>

pVars ==
  <<pc, watch, manifest, edits, pkg, builds, disk, queued, emitted, observed,
    writes, exitCode, lastWrite, failure>>

tVars == <<tIn, tOut>>
hVars == <<hPkg, hEdits, hOut>>
nVars == <<nName, nOut>>

(***************************************************************************)
(* Inputs of the export rewrite: bundler output with one leading export    *)
(* clause of known bindings, and output without any export clause.         *)
(***************************************************************************)
Ids == {<<"a">>, <<"b">>, <<"$", "$">>}

\* a binding `id` (as = FALSE) or `id as alias`
BindingSet ==
  {b \in [id : Ids, alias : Ids, as : BOOLEAN] : b.as \/ b.alias = b.id}

BindLists == UNION {[1..n -> BindingSet] : n \in 0..MaxBindings}

Gaps == {<<>>, <<" ">>, <<"\n", " ">>}

BindingText(b) ==
  IF b.as THEN b.id \o <<" ", "a", "s", " ">> \o b.alias ELSE b.id

ClauseText(binds, gap) ==
  EXPORT \o gap \o <<"{">> \o gap
    \o Join([i \in 1..Len(binds) |-> BindingText(binds[i])], <<",">> \o gap)
    \o gap \o <<"}", ";">>

Befores == {<<>>, <<"x", ";", "\n">>, EXPORT \o <<" ", "a", ";">>}
Afters == {<<>>, <<"\n", "y", ";">>, EXPORT \o <<"{", "a", "}", ";">>}

Tokens == {EXPORT, <<"{">>, <<"}">>, <<";">>, <<" ">>, <<"a">>}
TokenLists == UNION {[1..n -> Tokens] : n \in 0..MaxTokens}

\* s holds a clause of the shape export { ... };
HasClause(s) ==
  \E i \in 1..Len(s), j \in 1..Len(s), k \in 1..Len(s) :
    /\ StartsAt(s, i, EXPORT)
    /\ j >= i + Len(EXPORT)
    /\ \A w \in (i + Len(EXPORT))..(j - 1) : s[w] \in Ws
    /\ s[j] = "{"
    /\ k > j
    /\ StartsAt(s, k, <<"}", ";">>)

ClauseInputs ==
  {[kind |-> "clause", before |-> p, binds |-> bs, clause |-> ClauseText(bs, g),
    after |-> a, src |-> p \o ClauseText(bs, g) \o a] :
     p \in Befores, bs \in BindLists, g \in Gaps, a \in Afters}

PlainInputs ==
  {[kind |-> "plain", before |-> <<>>, binds |-> <<>>, clause |-> <<>>,
    after |-> <<>>, src |-> Flatten(ts)] :
     ts \in {x \in TokenLists : ~HasClause(Flatten(x))}}

NoInput ==
  [kind |-> "off", before |-> <<>>, binds |-> <<>>, clause |-> <<>>,
   after |-> <<>>, src |-> <<>>]

ProcessIdle ==
  /\ pc = "off"
  /\ watch = FALSE
  /\ manifest = <<>>
  /\ edits = 0
  /\ pkg = <<>>
  /\ builds = <<>>
  /\ disk = {}
  /\ queued = 0
  /\ emitted = 0
  /\ observed = 0
  /\ writes = 0
  /\ exitCode = <<>>
  /\ lastWrite = <<>>
  /\ failure = <<>>

TransformIdle == tIn = NoInput /\ tOut = <<>>
HeaderIdle == hPkg = <<>> /\ hEdits = 0 /\ hOut = <<>>
NameIdle == nName = <<>> /\ nOut = <<>>

InitTransform ==
  /\ tIn \in ClauseInputs \cup PlainInputs
  /\ tOut = <<>>
  /\ HeaderIdle
  /\ NameIdle
  /\ ProcessIdle

\* lines 135-153 of build applied to the bundler's output
RunTransform ==
  /\ tIn.kind # "off"
  /\ tOut = <<>>
  /\ tOut' = <<Transform(tIn.src)>>
  /\ UNCHANGED <<tIn, hVars, nVars, pVars>>

NextTransform == RunTransform

SpecTransform == InitTransform /\ [][NextTransform]_vars

(***************************************************************************)
(* Claims about the module-export transformer (under SpecTransform).       *)
(***************************************************************************)
Transformed == tOut # <<>>
Result == tOut[1]

\* the assignment the specification promises for one binding
ExpectedAssignment(b) ==
  <<"e", "x", "p", "o", "r", "t", "s", ".">> \o b.alias \o <<" ", "=", " ">>
    \o b.id \o <<";">>

\* one assignment per binding, newline-joined, in binding order
ExpectedAssignments(binds) ==
  Join([i \in 1..Len(binds) |-> ExpectedAssignment(binds[i])], <<"\n">>)

\* C1: a source whose first export clause lists n >= 0 bindings is rewritten
\* so that exactly the n assignments exports.<alias> = <id>; stand, in
\* binding order and newline-joined, in place of the clause, and the clause
\* text is gone from that place.
C1_ClauseBecomesAssignments ==
  (Transformed /\ tIn.kind = "clause") =>
     /\ Result = tIn.before \o ExpectedAssignments(tIn.binds) \o tIn.after
     /\ IndexOf(SubSeq(Result, 1, Len(Result) - Len(tIn.after)), tIn.clause) = 0

\* C10: the generated assignment block is inserted character for character:
\* the output is the text before the clause, the block exactly as generated,
\* and the text after the clause.
C10_LiteralInsertion ==
  (Transformed /\ tIn.kind = "clause") =>
     Result = tIn.before \o assignments(exportList(tIn.clause)) \o tIn.after

\* C5: everything before and after the first export clause is left as it
\* was (a later export clause included), and a source with no export clause
\* is returned unchanged.
C5_Frame ==
  Transformed =>
     /\ tIn.kind = "plain" => Result = tIn.src
     /\ tIn.kind = "clause" =>
          /\ Len(Result) >= Len(tIn.before) + Len(tIn.after)
          /\ SubSeq(Result, 1, Len(tIn.before)) = tIn.before
          /\ SubSeq(Result, Len(Result) - Len(tIn.after) + 1, Len(Result))
               = tIn.after

\* a rewritten source with text before the clause and a second, identical
\* export clause after it
C5_Witness ==
  /\ Transformed
  /\ tIn.kind = "clause"
  /\ tIn.before # <<>>
  /\ tIn.after = tIn.clause
  /\ Result # tIn.src

(***************************************************************************)
(* Inputs of the header synthesizer: package.json contents, reached from   *)
(* a manifest with only the mandatory fields or from one with every field  *)
(* set, by editing one property at a time.                                 *)
(***************************************************************************)
PkgKeys == {"name", "version", "description", "author", "homepage", "userscript"}

\* values written by the project and by the userscript section
ManifestTexts == {<<>>, <<"p">>}
OptionTexts == {<<>>, <<"o">>}
Lists == {<<>>, << <<"x">> >>, << <<"x">>, <<"y">> >>, << <<"y">>, <<"x">> >>}

Optional(S) == {<<>>} \cup {<<v>> : v \in S}

MinimalPkg ==
  [k \in PkgKeys |->
     IF k \in {"name", "version"} THEN <<"p">> ELSE <<>>]

FullOptions ==
  [k \in OptionKeys |->
     IF k \in ScalarOptions THEN << <<"o">> >>
     ELSE IF k \in ListOptions THEN << << <<"x">>, <<"y">> >> >>
     ELSE <<TRUE>>]

FullPkg ==
  [k \in PkgKeys |->
     IF k \in {"name", "version"} THEN <<"p">>
     ELSE IF k = "userscript" THEN <<FullOptions>>
     ELSE << <<"p">> >>]

Options(mf) ==
  IF mf["userscript"] = <<>> THEN NoOptions ELSE mf["userscript"][1]

WithOption(mf, k, v) ==
  [mf EXCEPT !["userscript"] = <<[Options(mf) EXCEPT ![k] = v]>>]

InitHeader ==
  /\ hPkg \in {MinimalPkg, FullPkg}
  /\ hEdits = 0
  /\ hOut = <<>>
  /\ TransformIdle
  /\ NameIdle
  /\ ProcessIdle

Edited(mf) ==
  /\ hEdits < MaxEdits
  /\ mf # hPkg
  /\ hPkg' = mf
  /\ hEdits' = hEdits + 1
  /\ hOut' = <<>>
  /\ UNCHANGED <<tVars, nVars, pVars>>

\* package.json edited: name or version
SetMandatory ==
  \E k \in {"name", "version"}, v \in ManifestTexts :
    Edited([hPkg EXCEPT ![k] = v])

\* package.json edited: description, author or homepage set or removed
SetManifestField ==
  \E k \in ManifestOptional, v \in Optional(ManifestTexts) :
    Edited([hPkg EXCEPT ![k] = v])

\* package.json edited: a scalar userscript option set or removed
SetOption ==
  \E k \in ScalarOptions, v \in Optional(OptionTexts) :
    Edited(WithOption(hPkg, k, v))

\* package.json edited: a list userscript option set or removed
SetListOption ==
  \E k \in ListOptions, v \in Optional(Lists) :
    Edited(WithOption(hPkg, k, v))

\* package.json edited: userscript.noframes set or removed
SetNoframes ==
  \E v \in Optional(BOOLEAN) : Edited(WithOption(hPkg, "noframes", v))

\* package.json edited: the userscript section removed
RemoveOptions == Edited([hPkg EXCEPT !["userscript"] = <<>>])

\* generateHeader(pkg)
Render ==
  /\ hPkg # <<>>
  /\ hOut = <<>>
  /\ hOut' = <<generateHeader(hPkg)>>
  /\ UNCHANGED <<hPkg, hEdits, tVars, nVars, pVars>>

NextHeader ==
  \/ SetMandatory
  \/ SetManifestField
  \/ SetOption
  \/ SetListOption
  \/ SetNoframes
  \/ RemoveOptions
  \/ Render

SpecHeader == InitHeader /\ [][NextHeader]_vars

(***************************************************************************)
(* Claims about the header synthesizer (under SpecHeader).                 *)
(***************************************************************************)
Rendered == hOut # <<>>

\* the lines of a text that ends each line with "\n"
LinesOf(text) ==
  LET parts == SplitChar(text, "\n")
  IN SubSeq(parts, 1, Len(parts) - 1)

\* the fixed order of the metadata fields
FieldOrder ==
  <<"name", "version", "namespace", "description", "author", "homepage",
    "icon", "match", "include", "exclude", "require", "grant", "connect",
    "run-at", "noframes">>

\* the text that opens the header line of a field
Keyword(k) ==
  CASE k = "name"        -> "// @name         "
    [] k = "version"     -> "// @version      "
    [] k = "namespace"   -> "// @namespace    "
    [] k = "description" -> "// @description  "
    [] k = "author"      -> "// @author       "
    [] k = "homepage"    -> "// @homepage     "
    [] k = "icon"        -> "// @icon         "
    [] k = "match"       -> "// @match        "
    [] k = "include"     -> "// @include      "
    [] k = "exclude"     -> "// @exclude      "
    [] k = "require"     -> "// @require      "
    [] k = "grant"       -> "// @grant        "
    [] k = "connect"     -> "// @connect      "
    [] k = "run-at"      -> "// @run-at       "
    [] k = "noframes"    -> "// @noframes"

\* an optional property that is there at all
Present(o) == o # <<>>

\* an optional string property that is there and is not ""
NonEmpty(o) == o # <<>> /\ Len(o[1]) > 0

\* the lines the field k must contribute, when "present" is read as
\* Present (byPresence) or as NonEmpty
ExpectedFieldLines(mf, k, byPresence) ==
  LET us == Options(mf)
      There(o) == IF byPresence THEN Present(o) ELSE NonEmpty(o)
  IN CASE k \in {"name", "version"} -> <<Keyword(k)>>
       [] k \in {"namespace", "icon", "run-at"} ->
            IF There(us[k]) THEN <<Keyword(k)>> ELSE <<>>
       [] k \in ManifestOptional ->
            IF There(us[k]) \/ There(mf[k]) THEN <<Keyword(k)>> ELSE <<>>
       [] k \in ListOptions ->
            IF us[k] = <<>> THEN <<>>
            ELSE [i \in 1..Len(us[k][1]) |-> Keyword(k)]
       [] k = "noframes" ->
            IF us[k] = <<TRUE>> THEN <<Keyword(k)>> ELSE <<>>

ExpectedKeywords(mf, byPresence) ==
  <<"// ==UserScript==">>
    \o Flatten([i \in 1..Len(FieldOrder) |->
                  ExpectedFieldLines(mf, FieldOrder[i], byPresence)])
    \o <<"// ==/UserScript==">>

\* the lines of the rendered header
RenderedLines == LinesOf(hOut[1])

\* the text that opens each of the lines ls
Keywords(ls) == [i \in 1..Len(ls) |-> Head(ls[i])]

\* the values on the lines of field k among the lines ls, in order
ValuesOf(ls, k) ==
  LET own == SelectSeq(ls, LAMBDA l : Head(l) = Keyword(k))
  IN [i \in 1..Len(own) |-> Tail(own[i])]

ListsInArrayOrder(ls) ==
  \A k \in ListOptions :
    Options(hPkg)[k] # <<>> => ValuesOf(ls, k) = Options(hPkg)[k][1]

\* C2 as stated: the header is the opening marker, the lines of exactly the
\* fields whose option (or manifest field) is present, in the fixed order,
\* list elements in array order, and the closing marker.
C2_FieldsByPresence ==
  Rendered =>
     LET ls == RenderedLines
     IN /\ Keywords(ls) = ExpectedKeywords(hPkg, TRUE)
        /\ ListsInArrayOrder(ls)

\* C2 amended: the same, with a string option or manifest field counting
\* as present only when it is not the empty string.
C2_FieldsByNonEmpty ==
  Rendered =>
     LET ls == RenderedLines
     IN /\ Keywords(ls) = ExpectedKeywords(hPkg, FALSE)
        /\ ListsInArrayOrder(ls)

\* a rendered header of a manifest with an empty-string option, an empty
\* list and a two-element list
C2_Witness ==
  /\ Rendered
  /\ \E k \in {"namespace", "icon", "run-at"} : Options(hPkg)[k] = << <<>> >>
  /\ \E k \in ListOptions : Len(ValuesOf(RenderedLines, k)) = 2
  /\ Len(RenderedLines) > 10

\* the value on the header line of a scalar field among the lines ls
\* (<<>> when there is no such line, else <<value>>)
LineValue(ls, k) ==
  LET vs == ValuesOf(ls, k)
  IN IF vs = <<>> THEN <<>> ELSE <<vs[1]>>

PrecedenceFields == {"name", "version", "description", "author", "homepage"}

ManifestValue(mf, k) ==
  IF k \in {"name", "version"} THEN <<mf[k]>> ELSE mf[k]

\* C3 as stated: whenever the option of a scalar field is present, whatever
\* its value, the header line of the field shows the option's value.
C3_OptionWinsWhenPresent ==
  Rendered =>
     LET ls == RenderedLines
     IN \A k \in PrecedenceFields :
          Present(Options(hPkg)[k]) => LineValue(ls, k) = Options(hPkg)[k]

\* C3 amended: whenever the option is present and not the empty string the
\* line shows the option's value; otherwise a line that is shown carries
\* the manifest's value.
C3_OptionWinsWhenNonEmpty ==
  Rendered =>
     LET ls == RenderedLines
     IN \A k \in PrecedenceFields :
          /\ NonEmpty(Options(hPkg)[k]) => LineValue(ls, k) = Options(hPkg)[k]
          /\ (~NonEmpty(Options(hPkg)[k]) /\ LineValue(ls, k) # <<>>) =>
                LineValue(ls, k) = ManifestValue(hPkg, k)

\* a rendered header where an option overrides a manifest value, and an
\* empty-string option stands beside a manifest value
C3_Witness ==
  /\ Rendered
  /\ \E k \in PrecedenceFields :
        /\ NonEmpty(Options(hPkg)[k])
        /\ NonEmpty(ManifestValue(hPkg, k))
        /\ LineValue(RenderedLines, k) = Options(hPkg)[k]
  /\ \E k \in PrecedenceFields :
        /\ Options(hPkg)[k] = << <<>> >>
        /\ NonEmpty(ManifestValue(hPkg, k))

(***************************************************************************)
(* Inputs of the file name derivation: a stem, some ".user" suffixes and   *)
(* a tail.                                                                 *)
(***************************************************************************)
Stems == UNION {[1..n -> {"f", "."}] : n \in 0..2}
Tails == {<<>>, <<"s">>, <<".">>, <<".", "j", "s">>}

RECURSIVE Repeat(_, _)
Repeat(s, n) == IF n = 0 THEN <<>> ELSE s \o Repeat(s, n - 1)

Names ==
  {st \o Repeat(DotUser, n) \o tl :
     st \in Stems, n \in 0..MaxSuffixes, tl \in Tails}

InitName ==
  /\ nName \in Names
  /\ nOut = <<>>
  /\ TransformIdle
  /\ HeaderIdle
  /\ ProcessIdle

\* lines 171-172 of build
DeriveName ==
  /\ nOut = <<>>
  /\ nOut' = <<userscriptFile(nName)>>
  /\ UNCHANGED <<nName, tVars, hVars, pVars>>

NextName == DeriveName

SpecName == InitName /\ [][NextName]_vars

(***************************************************************************)
(* Claims about the file name (under SpecName).                            *)
(***************************************************************************)
EndsWith(s, t) == Len(s) >= Len(t) /\ SubSeq(s, Len(s) - Len(t) + 1, Len(s)) = t

UserJs == DotUser \o <<".", "j", "s">>

\* the name with one trailing ".user" removed, if it has one
WithoutOneSuffix(name) ==
  IF EndsWith(name, DotUser) THEN SubSeq(name, 1, Len(name) - Len(DotUser))
  ELSE name

BuildPkgs ==
  {[MinimalPkg EXCEPT !["name"] = n, !["description"] = d] :
     n \in {<<"f">>, <<"g">> \o DotUser}, d \in {<<>>, << <<"p">> >>}}

BuiltCodes ==
  {<<"x", ";">>, <<"a", ";", "\n">> \o EXPORT \o <<" ", "{", " ", "a", " ", "}", ";">>}

\* the manifest as a later build call would see it if build kept the first
\* value it parsed
ReadManifestOnce == IF pkg # <<>> THEN pkg ELSE manifest

\* JSON.parse(readFileSync(pkgPath)): <<>> stands for the exception
ReadManifest == manifest

\* the loop takes the next event while pc = "watching", rebuild or not
LoopReadyNoAwait == pc = "watching"

\* the for-await loop is at its head: `await build(false)` has returned
LoopReady == pc = "watching" /\ builds = <<>>

\* writeFileSync(userscriptPath, text)
WriteFile(files, path, text) ==
  {f \in files : f.path # path} \cup {[path |-> path, text |-> text]}

RemoveAt(s, i) == SubSeq(s, 1, i - 1) \o SubSeq(s, i + 1, Len(s))

InitBuild ==
  /\ pc = "start"
  /\ watch \in BOOLEAN
  /\ manifest \in Optional(BuildPkgs)
  /\ edits = 0
  /\ pkg = <<>>
  /\ builds = <<>>
  /\ disk = {}
  /\ queued = 0
  /\ emitted = 0
  /\ observed = 0
  /\ writes = 0
  /\ exitCode = <<>>
  /\ lastWrite = <<>>
  /\ failure = <<>>
  /\ TransformIdle
  /\ HeaderIdle
  /\ NameIdle

\* process.exit(status)
Exit(status) ==
  /\ pc' = "exited"
  /\ exitCode' = <<status>>

\* a failed build that only returns: the first call ends the process with
\* status 0, a rebuild goes back to the loop
ReturnFromFailure(i) ==
  /\ builds' = RemoveAt(builds, i)
  /\ IF builds[i].first THEN Exit(0) ELSE UNCHANGED <<pc, exitCode>>
  /\ failure' = <<[diskBefore |-> builds[i].diskBefore, observed |-> observed]>>
  /\ UNCHANGED <<disk, writes, lastWrite>>

\* lines 123-127: result.success is false
FailBuild(i) ==
  /\ Exit(1)
  /\ failure' = <<[diskBefore |-> builds[i].diskBefore, observed |-> observed]>>
  /\ UNCHANGED <<builds, disk, writes, lastWrite>>

\* lines 105-121: a build call from its start to `await Bun.build`
StartBuild(first) ==
  LET m == ReadManifest
  IN IF m = <<>>
     THEN /\ Exit(1)
          /\ UNCHANGED <<pkg, builds>>
     ELSE /\ builds' = Append(builds, [pkg |-> m[1], first |-> first,
                                       readFrom |-> manifest,
                                       diskBefore |-> disk])
          /\ pkg' = IF first THEN m ELSE pkg
          /\ pc' = IF first THEN "building" ELSE pc
          /\ UNCHANGED exitCode

\* build(watch) is called
Launch ==
  /\ pc = "start"
  /\ StartBuild(TRUE)
  /\ UNCHANGED <<watch, manifest, edits, disk, queued, emitted, observed,
                 writes, lastWrite, failure, tVars, hVars, nVars>>

\* lines 181-183: the loop takes an event and calls build(false)
ObserveEvent ==
  /\ LoopReady
  /\ queued > 0
  /\ queued' = queued - 1
  /\ observed' = observed + 1
  /\ StartBuild(FALSE)
  /\ UNCHANGED <<watch, manifest, edits, disk, emitted, writes, lastWrite,
                 failure, tVars, hVars, nVars>>

\* Bun.build resolves with success = false
BundleFails ==
  \E i \in 1..Len(builds) :
    /\ pc \in {"building", "watching"}
    /\ FailBuild(i)
    /\ UNCHANGED <<watch, manifest, edits, pkg, queued, emitted, observed,
                   tVars, hVars, nVars>>

\* Bun.build resolves with success = true, and the artifact cannot be written
WriteFails ==
  \E i \in 1..Len(builds) :
    /\ pc \in {"building", "watching"}
    /\ Exit(1)
    /\ UNCHANGED <<watch, manifest, edits, pkg, builds, disk, queued, emitted,
                   observed, writes, lastWrite, failure, tVars, hVars, nVars>>

\* Bun.build resolves with success = true: lines 129-185 up to the next await
BundleSucceeds ==
  \E i \in 1..Len(builds), builtCode \in BuiltCodes :
    LET b == builds[i]
        path == userscriptFile(b.pkg["name"])
        text == userscript(b.pkg, builtCode)
    IN /\ pc \in {"building", "watching"}
       /\ disk' = WriteFile(disk, path, text)
       /\ writes' = writes + 1
       /\ lastWrite' = <<[path |-> path, text |-> text, builtCode |-> builtCode,
                          readFrom |-> b.readFrom, first |-> b.first]>>
       /\ builds' = RemoveAt(builds, i)
       /\ IF b.first
          THEN IF watch
               THEN pc' = "watching" /\ UNCHANGED exitCode
               ELSE Exit(0)
          ELSE UNCHANGED <<pc, exitCode>>
       /\ UNCHANGED <<watch, manifest, edits, pkg, queued, emitted, observed,
                      failure, tVars, hVars, nVars>>

\* the world: package.json is edited, removed or broken
EditManifest ==
  \E m \in Optional(BuildPkgs) :
    /\ pc # "off"
    /\ edits < MaxEdits
    /\ m # manifest
    /\ manifest' = m
    /\ edits' = edits + 1
    /\ UNCHANGED <<pc, watch, pkg, builds, disk, queued, emitted, observed,
                   writes, exitCode, lastWrite, failure, tVars, hVars, nVars>>

\* the world: a file under src changes and the watcher delivers the event
ChangeEvent ==
  /\ pc = "watching"
  /\ emitted < MaxEvents
  /\ emitted' = emitted + 1
  /\ queued' = queued + 1
  /\ UNCHANGED <<pc, watch, manifest, edits, pkg, builds, disk, observed,
                 writes, exitCode, lastWrite, failure, tVars, hVars, nVars>>

Next ==
  \/ Launch
  \/ ObserveEvent
  \/ BundleFails
  \/ WriteFails
  \/ BundleSucceeds
  \/ EditManifest
  \/ ChangeEvent

Spec == InitBuild /\ [][Next]_vars

(***************************************************************************)
(* Claims about the build process (under Spec).                            *)
(***************************************************************************)
OpenMarker == <<"// ==UserScript==">>
CloseMarker == <<"// ==/UserScript==">>
FirstCodeLine == <<"(function() {">>

\* the lines of the last artifact written
ArtifactLines == SplitChar(lastWrite[1].text, "\n")

\* the index of the closing marker line (0 when there is none)
CloseLine ==
  LET ls == ArtifactLines
  IN IF \E k \in 1..Len(ls) : ls[k] = CloseMarker
     THEN CHOOSE k \in 1..Len(ls) :
            ls[k] = CloseMarker /\ \A j \in 1..(k - 1) : ls[j] # CloseMarker
     ELSE 0

C6_OneRebuildAtATime ==
  /\ Len(builds) <= 1
  /\ pc = "watching" => writes + Len(builds) = observed + 1
  /\ (pc = "watching" /\ builds # <<>>) => ~builds[1].first

\* a second event waits in the watcher while the rebuild for the first runs
C6_Witness ==
  /\ pc = "watching"
  /\ Len(builds) = 1
  /\ observed = 1
  /\ queued >= 1

\* C7: after a bundler failure the artifacts on disk are those from before
\* the failed build, the process has exited with a non-zero status, and no
\* further event has been taken; the loop listens only after a build that
\* wrote its artifact.
C7_BundlerFailureIsFatal ==
  /\ failure # <<>> =>
        /\ disk = failure[1].diskBefore
        /\ pc = "exited"
        /\ exitCode # <<>>
        /\ exitCode[1] # 0
        /\ observed = failure[1].observed
  /\ LoopReady => (failure = <<>> /\ lastWrite # <<>>)

\* a rebuild failed in the bundler with an artifact on disk and an event
\* still waiting in the watcher
C7_Witness ==
  /\ failure # <<>>
  /\ observed >= 1
  /\ disk # {}
  /\ queued >= 1

\* C8: the file name and the header of every artifact come from package.json
\* as it was, and readable, when the build that wrote it started.
C8_ManifestReadAtBuildStart ==
  lastWrite # <<>> =>
     LET w == lastWrite[1]
         m == w.readFrom[1]
         h == generateHeader(m)
     IN /\ w.readFrom # <<>>
        /\ w.path = userscriptFile(m["name"])
        /\ Len(w.text) >= Len(h)
        /\ SubSeq(w.text, 1, Len(h)) = h

\* a rebuild wrote an artifact from a manifest that differs from the one
\* the first build read, and package.json has changed again since
C8_Witness ==
  /\ lastWrite # <<>>
  /\ ~lastWrite[1].first
  /\ lastWrite[1].readFrom # pkg
  /\ manifest # lastWrite[1].readFrom

====
